---- MODULE Spec2Model ----
(***************************************************************************)
(* SecureLink: session registry, message inbox, local message store and    *)
(* client WebSocket service, modelled from the JavaScript sources.         *)
(*                                                                         *)
(* The module holds several specifications over one set of variables:      *)
(*   Spec       the session-registry server (src/App.tsx, lines 54-598)    *)
(*   SpecStore  StorageService message store (ChatListScreen.js, 845-1351) *)
(*   SpecInbox  sends and fetches through the session-registry server      *)
(*   SpecChat   useChat clients against the session-registry server        *)
(*   SpecWs     WebSocketService (src/unnamed/part_013)                    *)
(*   SpecConn   the connection-registry server (src/App.tsx, 669-1315)     *)
(* Each specification leaves the variables of the other parts unchanged.   *)
(***************************************************************************)
EXTENDS Integers, Sequences, FiniteSets, TLC

(***************************************************************************)
(* Bounds of the model                                                     *)
(***************************************************************************)
MaxTime == 2
MaxSockets == 2
MaxInboxSockets == 1
MaxSends == 2

(***************************************************************************)
(* Values                                                                  *)
(***************************************************************************)
Users == {"u1", "u2"}
\* Firebase ID tokens; verifyIdToken maps a valid token to its uid and
\* throws for any other string.
Tokens == {"T1", "T2", "T3"}
BadToken == "bad"
NoToken == "none"
ContactIds == {"alice", "bob"}
DeviceIds == {"D1", "D2"}
NoSock == 0
NoUser == "nouser"
NoMsg == 0

\* admin.auth().verifyIdToken(token).uid
TokenUid(t) == IF t = "T3" THEN "u2" ELSE "u1"
verifyIdToken(t) == t \in Tokens

Min(a, b) == IF a < b THEN a ELSE b
Max(a, b) == IF a > b THEN a ELSE b
Range(s) == {s[i] : i \in DOMAIN s}

VARIABLES
    \* ---- session-registry server ----
    activeSessions,   \* Map userId -> session, in insertion order
    socketToUser,     \* Map socketId -> userId
    ioSockets,        \* io.sockets.sockets: ids of the connected sockets
    nextSock,         \* next socket id handed out by socket.io
    pendingAuth,      \* socket 'authenticate' handlers awaiting verifyIdToken
    emitted,          \* the last event emitted to each socket
    observe,          \* whether emitted events are recorded
    now,              \* Date.now()
    messageInbox,     \* Firestore messageInbox/<contactId>/messages
    messageStatus,    \* Firestore messageStatus/<messageId>
    nextMsg,          \* next uuid
    sendReq,          \* /api/chat/send handler in flight
    fetchReq,         \* /api/chat/messages handler in flight
    lastAuth,         \* history: outcome of the last GET /api/auth/me or rejected request
    lastSend,         \* last response of /api/chat/send
    lastFetch,        \* last response of /api/chat/messages
    lastLogin,        \* history: token of each account's most recent login
    prevLogin,        \* history: token of the login before that
    accepted,         \* history: messages accepted while the recipient had no socket
    returned,         \* history: message ids returned by fetches, per contactId
    \* ---- StorageService (AsyncStorage) ----
    stored,           \* the array persisted under messages_<contactId>
    chatMeta,         \* the chat's entry under chat_metadata
    lastOp,           \* history: the last store operation and what it merged
    \* ---- WebSocketService ----
    ws,               \* this.ws: the current transport, or NoWs
    readyState,       \* readyState of every transport created so far
    isConnected,
    isConnecting,
    reconnectAttempts,
    messageQueue,
    heartbeatInterval,   \* whether the 60 s interval is armed
    heartbeatTimeout,    \* whether the 30 s pong timeout is armed
    reconnectTimers,  \* number of pending setTimeout callbacks of attemptReconnect
    connectAwait,     \* number of connect() calls awaiting the token
    nextData,         \* next payload the application sends
    pings,            \* number of heartbeat ticks so far
    wire,             \* history: what was handed to WebSocket.send, in order
    owed,             \* history: payloads passed to send() while not open, not yet on the wire
    sinceOpen,        \* history: reconnect attempts scheduled since the last onopen
    closedByApp,      \* history: the application's last call was disconnect()
    lastWs,           \* history: the last event of the service
    \* ---- useChat clients ----
    chatLocal,        \* AsyncStorage chat_<partner> of each client
    sendPc,           \* the sender's sendMessage call
    pollPc,           \* each client's pollMessages call
    nextLocal,        \* next generateUniqueId()
    tries,            \* history: the sender's sendMessage calls and how they ended
    polledAfter,      \* history: per client, ids read before a poll that has completed
    saveCalls,        \* the sender's saveLocalMessage calls, each between its awaits
    \* ---- connection-registry server ----
    activeConnections,  \* Map userId -> { socketId, contactId, lastActive }
    connSocketToUser,   \* its socketToUser: Map socketId -> userId
    contactToUser,      \* Map contactId -> userId
    connSockets,        \* its io.sockets.sockets: ids of the connected sockets
    connNextSock,       \* next socket id handed out by socket.io
    connAuth,           \* 'authenticate' handlers suspended at an await
    connDisc,           \* 'disconnect' handlers suspended at their await
    isOnline,           \* Firestore users/<userId>.isOnline
    presence,           \* history: last user_online / user_offline broadcast for each account
    authenticatedAs,    \* history: account whose 'authenticated' each socket received
    connEmitted         \* the last event emitted to each of its sockets

regVars == <<activeSessions, socketToUser, ioSockets, nextSock, pendingAuth,
             emitted, observe, now, messageInbox, messageStatus, nextMsg, sendReq,
             fetchReq, lastAuth, lastSend, lastFetch, lastLogin, prevLogin, accepted,
             returned>>

storeVars == <<stored, chatMeta, lastOp>>

wsVars == <<ws, readyState, isConnected, isConnecting, reconnectAttempts,
            messageQueue, heartbeatInterval, heartbeatTimeout, reconnectTimers,
            connectAwait, nextData, pings, wire, owed, sinceOpen, closedByApp,
            lastWs>>

chatVars == <<chatLocal, sendPc, pollPc, nextLocal, tries, polledAfter>>

saveVars == <<saveCalls>>

connVars == <<activeConnections, connSocketToUser, contactToUser, connSockets,
              connNextSock, connAuth, connDisc, isOnline, presence,
              authenticatedAs, connEmitted>>

nonRegVars == <<storeVars, wsVars, chatVars, saveVars, connVars>>
nonStoreVars == <<regVars, wsVars, chatVars, saveVars, connVars>>
nonWsVars == <<regVars, storeVars, chatVars, saveVars, connVars>>
nonChatVars == <<regVars, storeVars, wsVars, saveVars, connVars>>

vars == <<regVars, nonRegVars>>

(***************************************************************************)
(* JavaScript Map, kept as a sequence of <<key, value>> entries in         *)
(* insertion order                                                         *)
(***************************************************************************)
MapIdx(m, k) == {i \in DOMAIN m : m[i][1] = k}
MapHas(m, k) == MapIdx(m, k) # {}
MapFirst(m, k) == CHOOSE i \in MapIdx(m, k) : \A j \in MapIdx(m, k) : i <= j
MapGet(m, k) == m[MapFirst(m, k)][2]
MapSet(m, k, v) ==
    IF MapHas(m, k)
    THEN [i \in DOMAIN m |-> IF m[i][1] = k THEN <<k, v>> ELSE m[i]]
    ELSE Append(m, <<k, v>>)
MapDelete(m, k) == SelectSeq(m, LAMBDA e : e[1] # k)
MapKeys(m) == {m[i][1] : i \in DOMAIN m}

(***************************************************************************)
(* Session-registry server: src/App.tsx lines 54-598                       *)
(***************************************************************************)
SessionTimeout == 1
MaxLimit == 100
SockIds == 1..MaxSockets
MsgIds == 1..MaxSends
Contents == {"hi"}
NoReq == [pc |-> "idle"]

Session(token, contactId, deviceId, t) ==
    [token |-> token, contactId |-> contactId, deviceId |-> deviceId,
     lastActivity |-> t, socketId |-> NoSock]

\* The part of the server state that a socket disconnect reads and writes.
Reg(sess, s2u, io, em) == [sess |-> sess, s2u |-> s2u, io |-> io, em |-> em]
CurReg == Reg(activeSessions, socketToUser, ioSockets, emitted)

\* socket.emit(ev): emitted[s] keeps the last event sent to a connected socket.
Emit(r, s, ev) ==
    IF s \in r.io /\ observe THEN [r EXCEPT !.em[s] = ev] ELSE r

\* socket.on('disconnect') without the test of line 549: the socketId of the
\* user's session is cleared whichever socket it names.
OnDisconnectAlways(r, s) ==
    LET userId == r.s2u[s] IN
    IF userId # NoUser
    THEN LET r1 == IF MapHas(r.sess, userId)
                   THEN [r EXCEPT !.sess = MapSet(r.sess, userId,
                            [MapGet(r.sess, userId) EXCEPT !.socketId = NoSock])]
                   ELSE r
         IN [r1 EXCEPT !.s2u[s] = NoUser]
    ELSE r

\* socket.on('disconnect'): clears the session's socketId only when it still
\* names this socket, and drops the socketToUser entry.
OnDisconnect(r, s) ==
    LET userId == r.s2u[s] IN
    IF userId # NoUser
    THEN LET r1 == IF MapHas(r.sess, userId)
                      /\ MapGet(r.sess, userId).socketId = s
                   THEN [r EXCEPT !.sess = MapSet(r.sess, userId,
                            [MapGet(r.sess, userId) EXCEPT !.socketId = NoSock])]
                   ELSE r
         IN [r1 EXCEPT !.s2u[s] = NoUser]
    ELSE r

\* socket.disconnect(true): socket.io removes the socket and runs its
\* 'disconnect' handler synchronously.
ServerDisconnect(r, s) ==
    IF s \in r.io THEN OnDisconnect([r EXCEPT !.io = @ \ {s}], s) ELSE r

\* socketToUser.delete(id) with id possibly null
S2uDelete(r, s) == IF s = NoSock THEN r ELSE [r EXCEPT !.s2u[s] = NoUser]

SetReg(r) ==
    /\ activeSessions' = r.sess
    /\ socketToUser' = r.s2u
    /\ ioSockets' = r.io
    /\ emitted' = r.em
    /\ UNCHANGED observe

\* authenticate middleware (lines 128-157): the decision taken once
\* verifyIdToken has resolved.
AuthAcceptsAnySession(token) ==
    /\ verifyIdToken(token)
    /\ MapHas(activeSessions, TokenUid(token))
AuthAccepts(token) ==
    /\ verifyIdToken(token)
    /\ MapHas(activeSessions, TokenUid(token))
    /\ MapGet(activeSessions, TokenUid(token)).token = token

Touch(sess, userId) ==
    MapSet(sess, userId, [MapGet(sess, userId) EXCEPT !.lastActivity = now])

AuthRecord(token, ok) ==
    LET uid == IF verifyIdToken(token) THEN TokenUid(token) ELSE NoUser IN
    [token |-> token, ok |-> ok,
     latest |-> IF uid = NoUser THEN NoToken ELSE lastLogin[uid],
     prev |-> IF uid = NoUser THEN NoToken ELSE prevLogin[uid]]

\* A request through the middleware that is accepted, with its outcome
\* recorded.
Authenticated(token) ==
    /\ AuthAccepts(token)
    /\ lastAuth' = AuthRecord(token, TRUE)

RegUnchangedDb == UNCHANGED <<messageInbox, messageStatus, nextMsg, sendReq,
                              fetchReq, lastSend, lastFetch, accepted, returned>>
RegUnchangedSockets == UNCHANGED <<socketToUser, ioSockets, nextSock,
                                   pendingAuth, emitted, observe>>

\* GET /api/auth/me (lines 258-268): any route behind the middleware that
\* changes nothing else.
AuthMe(token) ==
    /\ Authenticated(token)
    /\ activeSessions' = Touch(activeSessions, TokenUid(token))
    /\ RegUnchangedDb /\ RegUnchangedSockets
    /\ UNCHANGED <<now, lastLogin, prevLogin, nonRegVars>>

\* Any route behind the middleware, bearer token rejected with 401.
AuthReject(token) ==
    /\ ~AuthAccepts(token)
    /\ lastAuth' = AuthRecord(token, FALSE)
    /\ RegUnchangedDb /\ RegUnchangedSockets
    /\ UNCHANGED <<activeSessions, now, lastLogin, prevLogin, nonRegVars>>

\* POST /api/auth/login (lines 175-232), from the point where verifyIdToken
\* has resolved.
LoginEffect(r, userId, idToken, contactId, deviceId) ==
    LET r1 ==
          IF MapHas(r.sess, userId)
          THEN LET old == MapGet(r.sess, userId).socketId IN
               IF old # NoSock
               THEN LET r2 == ServerDisconnect(
                                 Emit(r, old, "session_invalidated"), old)
                    IN S2uDelete(r2, MapGet(r2.sess, userId).socketId)
               ELSE r
          ELSE r
    IN [r1 EXCEPT !.sess =
            MapSet(r1.sess, userId, Session(idToken, contactId, deviceId, now))]

Login(idToken, contactId, deviceId) ==
    /\ verifyIdToken(idToken)
    /\ SetReg(LoginEffect(CurReg, TokenUid(idToken), idToken, contactId, deviceId))
    /\ lastLogin' = [lastLogin EXCEPT ![TokenUid(idToken)] = idToken]
    /\ prevLogin' = [prevLogin EXCEPT ![TokenUid(idToken)] = lastLogin[TokenUid(idToken)]]
    /\ RegUnchangedDb
    /\ UNCHANGED <<nextSock, pendingAuth, now, lastAuth, nonRegVars>>

\* POST /api/auth/logout (lines 235-255)
LogoutEffect(r, userId) ==
    LET r0 == [r EXCEPT !.sess = Touch(r.sess, userId)]
        sid == MapGet(r0.sess, userId).socketId
        r1 == IF sid # NoSock
              THEN LET r2 == ServerDisconnect(Emit(r0, sid, "logged_out"), sid)
                   IN S2uDelete(r2, MapGet(r2.sess, userId).socketId)
              ELSE r0
    IN [r1 EXCEPT !.sess = MapDelete(r1.sess, userId)]

Logout(token) ==
    /\ AuthAccepts(token)
    /\ SetReg(LogoutEffect(CurReg, TokenUid(token)))
    /\ RegUnchangedDb
    /\ UNCHANGED <<nextSock, pendingAuth, now, lastAuth, lastLogin, prevLogin,
                   nonRegVars>>

\* setInterval session sweep (lines 114-125)
Expired(session) == now - session.lastActivity > SessionTimeout
Sweep ==
    /\ activeSessions' = SelectSeq(activeSessions, LAMBDA e : ~Expired(e[2]))
    /\ RegUnchangedDb /\ RegUnchangedSockets
    /\ UNCHANGED <<now, lastAuth, lastLogin, prevLogin, nonRegVars>>

\* The clock read by Date.now()
Tick ==
    /\ now < MaxTime
    /\ now' = now + 1
    /\ RegUnchangedDb /\ RegUnchangedSockets
    /\ UNCHANGED <<activeSessions, lastAuth, lastLogin, prevLogin, nonRegVars>>

\* io.on('connection') (line 500)
SocketConnect ==
    /\ nextSock <= MaxSockets
    /\ ioSockets' = ioSockets \cup {nextSock}
    /\ nextSock' = nextSock + 1
    /\ RegUnchangedDb
    /\ UNCHANGED <<activeSessions, socketToUser, pendingAuth, emitted, observe, now,
                   lastAuth, lastLogin, prevLogin, nonRegVars>>

\* socket.on('authenticate') (lines 503-543), up to the await: a missing
\* token or contactId is answered at once, without closing the socket.
SockAuthBegin(s, token, contactId) ==
    /\ s \in ioSockets
    /\ \A p \in pendingAuth : p.sock # s
    /\ IF token = NoToken \/ contactId = NoToken
       THEN /\ SetReg(Emit(CurReg, s, "authentication_failed"))
            /\ UNCHANGED pendingAuth
       ELSE /\ pendingAuth' = pendingAuth \cup
                   {[sock |-> s, token |-> token, contactId |-> contactId]}
            /\ UNCHANGED <<activeSessions, socketToUser, ioSockets, emitted, observe>>
    /\ RegUnchangedDb
    /\ UNCHANGED <<nextSock, now, lastAuth, lastLogin, prevLogin, nonRegVars>>

\* socket.on('authenticate') without lines 519-526: the new socket is recorded
\* and the socket the session named before is left alone.
SockAuthKeepsOld(r, s, token, contactId) ==
    IF ~verifyIdToken(token)
    THEN ServerDisconnect(Emit(r, s, "authentication_failed"), s)
    ELSE LET userId == TokenUid(token) IN
         IF /\ MapHas(r.sess, userId)
            /\ MapGet(r.sess, userId).token = token
            /\ MapGet(r.sess, userId).contactId = contactId
         THEN Emit([r EXCEPT
                      !.sess = MapSet(r.sess, userId,
                          [MapGet(r.sess, userId) EXCEPT !.socketId = s]),
                      !.s2u[s] = userId], s, "authenticated")
         ELSE ServerDisconnect(Emit(r, s, "authentication_failed"), s)

\* socket.on('authenticate'), after verifyIdToken has resolved or thrown.
SockAuthEffect(r, s, token, contactId) ==
    IF ~verifyIdToken(token)
    THEN ServerDisconnect(Emit(r, s, "authentication_failed"), s)
    ELSE LET userId == TokenUid(token) IN
         IF /\ MapHas(r.sess, userId)
            /\ MapGet(r.sess, userId).token = token
            /\ MapGet(r.sess, userId).contactId = contactId
         THEN LET old == MapGet(r.sess, userId).socketId
                  r1 == IF old # NoSock
                        THEN LET r2 == IF old \in r.io /\ old # s
                                       THEN ServerDisconnect(
                                              Emit(r, old, "connection_replaced"), old)
                                       ELSE r
                             IN S2uDelete(r2, MapGet(r2.sess, userId).socketId)
                        ELSE r
                  r3 == [r1 EXCEPT
                           !.sess = MapSet(r1.sess, userId,
                               [MapGet(r1.sess, userId) EXCEPT !.socketId = s]),
                           !.s2u[s] = userId]
              IN Emit(r3, s, "authenticated")
         ELSE ServerDisconnect(Emit(r, s, "authentication_failed"), s)

SockAuthResume(p) ==
    /\ p \in pendingAuth
    /\ pendingAuth' = pendingAuth \ {p}
    /\ SetReg(SockAuthEffect(CurReg, p.sock, p.token, p.contactId))
    /\ RegUnchangedDb
    /\ UNCHANGED <<nextSock, now, lastAuth, lastLogin, prevLogin, nonRegVars>>

\* The transport of a socket closes (client side or network): socket.io
\* removes the socket and runs socket.on('disconnect') (lines 545-555).
SocketDisconnect(s) ==
    /\ s \in ioSockets
    /\ SetReg(ServerDisconnect(CurReg, s))
    /\ RegUnchangedDb
    /\ UNCHANGED <<nextSock, pendingAuth, now, lastAuth, lastLogin, prevLogin,
                   nonRegVars>>

\* socket.on('ping') (lines 557-559)
Ping(s) ==
    /\ s \in ioSockets
    /\ SetReg(Emit(CurReg, s, "pong"))
    /\ RegUnchangedDb
    /\ UNCHANGED <<nextSock, pendingAuth, now, lastAuth, lastLogin, prevLogin,
                   nonRegVars>>

RegUnchangedSessions == UNCHANGED <<socketToUser, ioSockets, nextSock, observe,
                                    pendingAuth, now, lastLogin, prevLogin>>
NoLocal == 0

\* POST /api/chat/send (lines 271-327), up to the Firestore write: the
\* middleware, the field checks and the message object.
SendBegin(token, recipientContactId, content, localId) ==
    /\ sendReq = NoReq
    /\ nextMsg <= MaxSends
    /\ AuthAccepts(token)
    /\ activeSessions' = Touch(activeSessions, TokenUid(token))
    /\ sendReq' = [pc |-> "write",
                   msg |-> [id |-> nextMsg,
                            senderContactId |->
                                MapGet(activeSessions, TokenUid(token)).contactId,
                            recipientContactId |-> recipientContactId,
                            content |-> content,
                            timestamp |-> now,
                            status |-> "sent",
                            localId |-> localId]]
    /\ nextMsg' = nextMsg + 1
    /\ RegUnchangedSessions
    /\ UNCHANGED <<lastAuth, emitted, messageInbox, messageStatus, fetchReq, lastSend,
                   lastFetch, accepted, returned, nonRegVars>>

\* db.collection('messageInbox').doc(recipient).collection('messages')
\*   .doc(messageId).set(message)
InboxSet(inbox, msg) == Append(SelectSeq(inbox, LAMBDA m : m.id # msg.id), msg)

\* The Firestore set() of the message under the recipient's inbox commits.
SendWrite ==
    /\ sendReq.pc = "write"
    /\ messageInbox' = [messageInbox EXCEPT
                          ![sendReq.msg.recipientContactId] = InboxSet(@, sendReq.msg)]
    /\ sendReq' = [sendReq EXCEPT !.pc = "notify"]
    /\ RegUnchangedSessions
    /\ UNCHANGED <<activeSessions, emitted, messageStatus, nextMsg, fetchReq,
                   lastAuth, lastSend, lastFetch, accepted, returned, nonRegVars>>

\* The Firestore set() rejects: the handler answers 500.
SendWriteFail ==
    /\ sendReq.pc = "write"
    /\ sendReq' = NoReq
    /\ lastSend' = [status |-> 500, messageId |-> NoMsg, localId |-> sendReq.msg.localId,
                    timestamp |-> 0,
                    recipientOnline |-> FALSE, pushed |-> FALSE, live |-> FALSE]
    /\ RegUnchangedSessions
    /\ UNCHANGED <<activeSessions, emitted, messageInbox, messageStatus, nextMsg,
                   fetchReq, lastAuth, lastFetch, accepted, returned, nonRegVars>>

\* [...activeSessions.entries()].find(([_, session]) => session.contactId === c)
FindSession(sess, contactId) ==
    LET idx == {i \in DOMAIN sess : sess[i][2].contactId = contactId} IN
    IF idx = {} THEN <<>>
    ELSE <<sess[CHOOSE i \in idx : \A j \in idx : i <= j][2]>>

\* The sockets that are connected and recorded by a session of the contact.
LiveSocketsOf(sess, io, contactId) ==
    {sess[i][2].socketId : i \in {j \in DOMAIN sess :
        /\ sess[j][2].contactId = contactId
        /\ sess[j][2].socketId # NoSock
        /\ sess[j][2].socketId \in io}}

\* recipientOnline of the response (line 320)
RecipientOnline(found, pushed) == found # <<>>

\* The handler resumes after the write: real-time notification and response
\* (lines 304-321).
SendNotify ==
    /\ sendReq.pc = "notify"
    /\ LET m == sendReq.msg
           found == FindSession(activeSessions, m.recipientContactId)
           pushed == /\ found # <<>>
                     /\ found[1].socketId # NoSock
                     /\ found[1].socketId \in ioSockets
           live == LiveSocketsOf(activeSessions, ioSockets, m.recipientContactId) # {}
       IN /\ emitted' = IF pushed
                        THEN Emit(CurReg, found[1].socketId, "new_message").em
                        ELSE emitted
          /\ lastSend' = [status |-> 200, messageId |-> m.id, localId |-> m.localId,
                          timestamp |-> m.timestamp,
                          recipientOnline |-> RecipientOnline(found, pushed),
                          pushed |-> pushed, live |-> live]
          /\ accepted' = IF live THEN accepted
                         ELSE accepted \cup {[id |-> m.id, to |-> m.recipientContactId,
                                           localId |-> m.localId]}
    /\ sendReq' = NoReq
    /\ RegUnchangedSessions
    /\ UNCHANGED <<activeSessions, messageInbox, messageStatus, nextMsg, fetchReq,
                   lastAuth, lastFetch, returned, nonRegVars>>

\* Math.min(parseInt(req.query.limit) || 50, 100) (line 333)
QueryLimit(limit) == Min(IF limit = 0 THEN 50 ELSE limit, MaxLimit)

Ids(msgs) == {msgs[i].id : i \in DOMAIN msgs}

\* GET /api/chat/messages (lines 330-370): middleware and query.
FetchBegin(token, limit) ==
    /\ fetchReq = NoReq
    /\ AuthAccepts(token)
    /\ activeSessions' = Touch(activeSessions, TokenUid(token))
    /\ fetchReq' = [pc |-> "get",
                    contactId |-> MapGet(activeSessions, TokenUid(token)).contactId,
                    limit |-> QueryLimit(limit),
                    snapshot |-> <<>>]
    /\ RegUnchangedSessions
    /\ UNCHANGED <<lastAuth, emitted, messageInbox, messageStatus, nextMsg, sendReq, lastSend,
                   lastFetch, accepted, returned, nonRegVars>>

\* The documents a fetch deletes from the inbox after reading them.
DeleteAll(inbox, snapshot) == <<>>
DeleteFetched(inbox, snapshot) ==
    SelectSeq(inbox, LAMBDA m : m.id \notin Ids(snapshot))

\* messagesRef.get() resolves with the first `limit` documents by timestamp;
\* an empty snapshot is answered at once.
FetchGetEffect ==
    /\ fetchReq.pc = "get"
    /\ LET inbox == messageInbox[fetchReq.contactId]
           snap == SubSeq(inbox, 1, Min(fetchReq.limit, Len(inbox)))
       IN IF snap = <<>>
          THEN /\ fetchReq' = NoReq
               /\ lastFetch' = [status |-> 200, contactId |-> fetchReq.contactId,
                                messages |-> <<>>]
          ELSE /\ fetchReq' = [fetchReq EXCEPT !.pc = "commit", !.snapshot = snap]
               /\ UNCHANGED lastFetch
    /\ RegUnchangedSessions
    /\ UNCHANGED <<activeSessions, emitted, messageInbox, messageStatus, nextMsg,
                   sendReq, lastAuth, lastSend, accepted, returned>>

FetchGet == FetchGetEffect /\ UNCHANGED nonRegVars

\* batch.commit() deletes the fetched documents; then the response is sent.
FetchCommitEffect ==
    /\ fetchReq.pc = "commit"
    /\ messageInbox' = [messageInbox EXCEPT ![fetchReq.contactId] =
                           DeleteFetched(@, fetchReq.snapshot)]
    /\ lastFetch' = [status |-> 200, contactId |-> fetchReq.contactId,
                     messages |-> fetchReq.snapshot]
    /\ returned' = [returned EXCEPT ![fetchReq.contactId] =
                       @ \cup Ids(fetchReq.snapshot)]
    /\ fetchReq' = NoReq
    /\ RegUnchangedSessions
    /\ UNCHANGED <<activeSessions, emitted, messageStatus, nextMsg, sendReq,
                   lastAuth, lastSend, accepted>>

FetchCommit == FetchCommitEffect /\ UNCHANGED nonRegVars

\* batch.commit() rejects: nothing is deleted and the handler answers 500.
FetchCommitFailEffect ==
    /\ fetchReq.pc = "commit"
    /\ lastFetch' = [status |-> 500, contactId |-> fetchReq.contactId,
                     messages |-> <<>>]
    /\ fetchReq' = NoReq
    /\ RegUnchangedSessions
    /\ UNCHANGED <<activeSessions, emitted, messageInbox, messageStatus, nextMsg,
                   sendReq, lastAuth, lastSend, accepted, returned>>

FetchCommitFail == FetchCommitFailEffect /\ UNCHANGED nonRegVars

\* POST /api/chat/delivered/:messageId and /api/chat/read/:messageId
\* (lines 373-408): set({status}, {merge: true}) on messageStatus/<id>.
MarkStatusEffect(token, messageId, status) ==
    /\ AuthAccepts(token)
    /\ activeSessions' = Touch(activeSessions, TokenUid(token))
    /\ messageStatus' = [messageStatus EXCEPT ![messageId] = status]
    /\ RegUnchangedSessions
    /\ UNCHANGED <<lastAuth, emitted, messageInbox, nextMsg, sendReq, fetchReq, lastSend,
                   lastFetch, accepted, returned>>

MarkStatus(token, messageId, status) == MarkStatusEffect(token, messageId, status) /\ UNCHANGED nonRegVars

(***************************************************************************)
(* StorageService message store: src/src/screens/chat/ChatListScreen.js    *)
(* lines 845-1351.  One chat is modelled.  Timestamps are integers in      *)
(* units of 2500 ms, so the 5000 ms duplicate threshold is 2 units; the    *)
(* message limits 1000 and 500 are scaled to 2 and 1.                      *)
(***************************************************************************)
MaxIds == 3
MaxBatch == 2
MAX_MESSAGES_PER_CHAT == 2
MESSAGE_CLEANUP_THRESHOLD == 1
DupWindow == 2

Statuses == <<"sending", "sent", "delivered", "read">>
StatusSet == Range(Statuses)
Rank(st) == CHOOSE i \in DOMAIN Statuses : Statuses[i] = st

\* The messages the server or the screen hands to the store: message i has a
\* fixed content and timestamp, and any status.
ContentOf(i) == IF i > 1 /\ i % 2 = 1 THEN "yo" ELSE "hi"
TsOf(i) == (3 * (i \div 2)) \div 2
Msg(i, st) == [id |-> i, content |-> ContentOf(i), timestamp |-> TsOf(i),
               status |-> st, localId |-> NoLocal]
Incoming == {Msg(i, st) : i \in 1..MaxIds, st \in StatusSet}
Batches == UNION {[1..n -> Incoming] : n \in 1..MaxBatch}

Abs(x) == IF x < 0 THEN -x ELSE x

\* Array.prototype.sort with (a, b) => new Date(a.timestamp) - new Date(b.timestamp):
\* a stable sort, oldest first.
RECURSIVE SortAsc(_)
SortAsc(seq) ==
    IF seq = <<>> THEN <<>>
    ELSE LET rest == SortAsc(SubSeq(seq, 1, Len(seq) - 1))
             m == seq[Len(seq)]
             k == Cardinality({i \in DOMAIN rest : rest[i].timestamp <= m.timestamp})
         IN SubSeq(rest, 1, k) \o <<m>> \o SubSeq(rest, k + 1, Len(rest))

\* ... with (a, b) => new Date(b.timestamp) - new Date(a.timestamp): newest first.
RECURSIVE SortDesc(_)
SortDesc(seq) ==
    IF seq = <<>> THEN <<>>
    ELSE LET rest == SortDesc(SubSeq(seq, 1, Len(seq) - 1))
             m == seq[Len(seq)]
             k == Cardinality({i \in DOMAIN rest : rest[i].timestamp >= m.timestamp})
         IN SubSeq(rest, 1, k) \o <<m>> \o SubSeq(rest, k + 1, Len(rest))

\* The stored array as it was written, without the sort of line 1138.
getStoredArray(raw) == raw

\* getChatMessages (lines 1120-1143): the stored array, oldest first.
getChatMessages(raw) == SortAsc(raw)

\* The duplicate test of addChatMessage (lines 1168-1172)
IsDuplicate(m, messageData) ==
    \/ m.id = messageData.id
    \/ /\ m.content = messageData.content
       /\ Abs(m.timestamp - messageData.timestamp) < DupWindow

\* { ...messages[i], ...messageData } (line 1176): every field of the stored
\* record that messageData carries is overwritten.
MergeRecord(old, messageData) == messageData

\* addChatMessage, lines 1153-1180: find, then update or push.
MergeOne(messages, messageData) ==
    LET dup == {i \in DOMAIN messages : IsDuplicate(messages[i], messageData)} IN
    IF dup # {}
    THEN LET k == CHOOSE i \in dup : \A j \in dup : i <= j
         IN [messages EXCEPT ![k] = MergeRecord(messages[k], messageData)]
    ELSE Append(messages, messageData)

\* cleanupOldMessages (lines 1202-1220) sorts the array it is given in place
\* when it is over the limit, and writes the trimmed copy itself.
Trimmed(messages) ==
    LET desc == SortDesc(messages)
        kept == SubSeq(desc, 1, Min(MESSAGE_CLEANUP_THRESHOLD, Len(desc)))
    IN [i \in DOMAIN kept |-> kept[Len(kept) + 1 - i]]
AfterCleanup(messages) ==
    IF Len(messages) > MAX_MESSAGES_PER_CHAT THEN SortDesc(messages) ELSE messages

\* What the caller persists after cleanupOldMessages has returned
\* (lines 1183-1185 and 1332-1334): the array it holds, whole.
Persisted(messages) == AfterCleanup(messages)

\* new Map(existingMessages.map(m => [m.id, m])), then messageMap.set per
\* incoming message (lines 1309-1326)
RECURSIVE MapAll(_, _)
MapAll(map, msgs) ==
    IF msgs = <<>> THEN map
    ELSE MapAll(MapSet(map, msgs[1].id, msgs[1]), Tail(msgs))
MapValues(map) == [i \in DOMAIN map |-> map[i][2]]

MergeBatch(existing, msgs) ==
    SortAsc(MapValues(MapAll(MapAll(<<>>, existing), msgs)))

NoOp == [kind |-> "none", msgs |-> <<>>, exceeded |-> FALSE, discarded |-> {}]
OpRecord(kind, msgs, merged, persisted) ==
    [kind |-> kind, msgs |-> msgs,
     exceeded |-> Len(merged) > MAX_MESSAGES_PER_CHAT,
     discarded |-> Range(merged) \ Range(persisted)]

\* updateChatMetadata (lines 1050-1081) for the two fields a merge passes
Metadata(m) == [lastMessage |-> m.content, lastMessageTime |-> m.timestamp]

\* addChatMessage (lines 1145-1200)
addChatMessage(message) ==
    LET merged == MergeOne(getChatMessages(stored), message) IN
    /\ stored' = Persisted(merged)
    /\ chatMeta' = Metadata(message)
    /\ lastOp' = OpRecord("add", <<message>>, merged, stored')
    /\ UNCHANGED nonStoreVars

\* addMultipleMessages (lines 1304-1351)
addMultipleMessages(messages) ==
    LET merged == MergeBatch(getChatMessages(stored), messages) IN
    /\ stored' = Persisted(merged)
    /\ chatMeta' = Metadata(messages[Len(messages)])
    /\ lastOp' = OpRecord("multi", messages, merged, stored')
    /\ UNCHANGED nonStoreVars

\* updateMessageStatus (lines 1239-1255)
updateMessageStatus(messageId, status) ==
    LET messages == getChatMessages(stored)
        hit == {i \in DOMAIN messages : messages[i].id = messageId}
    IN /\ hit # {}
       /\ stored' = [messages EXCEPT
                       ![CHOOSE i \in hit : \A j \in hit : i <= j].status = status]
       /\ lastOp' = [NoOp EXCEPT !.kind = "status"]
       /\ UNCHANGED <<chatMeta, nonStoreVars>>

StoreNext ==
    \/ \E m \in Incoming : addChatMessage(m)
    \/ \E b \in Batches : addMultipleMessages(b)
    \/ \E i \in 1..MaxIds, st \in StatusSet : updateMessageStatus(i, st)

(***************************************************************************)
(* WebSocketService: src/unnamed/part_013.  The transport is React         *)
(* Native's WebSocket: close() moves it to CLOSING and the close event     *)
(* arrives later; a failed connection delivers onerror and onclose         *)
(* together.  Delays are in units of one second; maxReconnectAttempts 5   *)
(* is scaled to 2.                                                         *)
(***************************************************************************)
MaxWs == 2
MaxData == 1
MaxPings == 1
MaxAwait == 1
maxReconnectAttempts == 2
reconnectInterval == 1

NoWs == 0
WsIds == 1..MaxWs
Data(n) == [type |-> "send_message", n |-> n]
PingData == [type |-> "ping", n |-> 0]
CloseCodes == {1000, 1006}

RECURSIVE Pow2(_)
Pow2(n) == IF n = 0 THEN 1 ELSE 2 * Pow2(n - 1)

Svc == [ws |-> ws, readyState |-> readyState, isConnected |-> isConnected,
        isConnecting |-> isConnecting, reconnectAttempts |-> reconnectAttempts,
        messageQueue |-> messageQueue, heartbeatInterval |-> heartbeatInterval,
        heartbeatTimeout |-> heartbeatTimeout, reconnectTimers |-> reconnectTimers,
        connectAwait |-> connectAwait, wire |-> wire, owed |-> owed,
        sinceOpen |-> sinceOpen, closedByApp |-> closedByApp, lastWs |-> lastWs]

SetSvc(v) ==
    /\ ws' = v.ws
    /\ readyState' = v.readyState
    /\ isConnected' = v.isConnected
    /\ isConnecting' = v.isConnecting
    /\ reconnectAttempts' = v.reconnectAttempts
    /\ messageQueue' = v.messageQueue
    /\ heartbeatInterval' = v.heartbeatInterval
    /\ heartbeatTimeout' = v.heartbeatTimeout
    /\ reconnectTimers' = v.reconnectTimers
    /\ connectAwait' = v.connectAwait
    /\ wire' = v.wire
    /\ owed' = v.owed
    /\ sinceOpen' = v.sinceOpen
    /\ closedByApp' = v.closedByApp
    /\ lastWs' = v.lastWs

Event(kind) == [kind |-> kind, socket |-> NoWs, delay |-> 0, k |-> 0,
                flushed |-> <<>>, owed |-> <<>>]

IsOpen(v) == v.ws # NoWs /\ v.readyState[v.ws] = "OPEN"

\* send(data) (lines 107-121)
send(v, data) ==
    IF IsOpen(v)
    THEN [v EXCEPT !.wire = Append(@, data),
                   !.owed = SelectSeq(@, LAMBDA d : d # data)]
    ELSE [v EXCEPT !.messageQueue = Append(@, data),
                   !.owed = IF \E i \in DOMAIN @ : @[i] = data THEN @ ELSE Append(@, data)]

\* flushMessageQueue (lines 193-203)
RECURSIVE sendAll(_, _)
sendAll(v, msgs) ==
    IF msgs = <<>> THEN v ELSE sendAll(send(v, msgs[1]), Tail(msgs))
flushMessageQueue(v) ==
    sendAll([v EXCEPT !.messageQueue = <<>>], v.messageQueue)

\* stopHeartbeat (lines 221-231), startHeartbeat (lines 205-219)
stopHeartbeat(v) == [v EXCEPT !.heartbeatInterval = FALSE, !.heartbeatTimeout = FALSE]
startHeartbeat(v) == [stopHeartbeat(v) EXCEPT !.heartbeatInterval = TRUE]

\* WebSocket.close(): a transport that is connecting or open starts closing
close(v, s) ==
    IF v.readyState[s] \in {"CONNECTING", "OPEN"}
    THEN [v EXCEPT !.readyState[s] = "CLOSING"] ELSE v

\* disconnect() (lines 92-105)
disconnect(v) ==
    LET h == stopHeartbeat(v)
        c == IF h.ws # NoWs THEN [close(h, h.ws) EXCEPT !.ws = NoWs] ELSE h
    IN [c EXCEPT !.isConnected = FALSE, !.isConnecting = FALSE,
                 !.reconnectAttempts = 0, !.messageQueue = <<>>]

\* the synchronous part of connect() (lines 18-26)
connect(v) ==
    IF v.isConnecting \/ v.isConnected THEN v
    ELSE [v EXCEPT !.isConnecting = TRUE, !.connectAwait = @ + 1]

\* attemptReconnect (lines 172-191)
Delay(attempts) == reconnectInterval * Pow2(attempts - 1)
attemptReconnect(v) ==
    IF v.reconnectAttempts >= maxReconnectAttempts
    THEN [v EXCEPT !.lastWs = Event("max_reconnect_attempts")]
    ELSE [v EXCEPT !.reconnectAttempts = @ + 1,
                   !.reconnectTimers = @ + 1,
                   !.sinceOpen = @ + 1,
                   !.lastWs = [Event("reconnect") EXCEPT
                                  !.delay = Delay(v.reconnectAttempts + 1),
                                  !.k = v.sinceOpen + 1]]

\* The application calls connect().
WsConnect ==
    /\ ~(isConnecting \/ isConnected)
    /\ connectAwait < MaxAwait
    /\ SetSvc([connect(Svc) EXCEPT !.closedByApp = FALSE,
                                   !.lastWs = Event("connect")])
    /\ UNCHANGED <<nextData, pings, nonWsVars>>

\* connect() continues after the token was read (lines 28-83) ...
WsConnectResume ==
    /\ connectAwait > 0
    /\ \E s \in WsIds :
          /\ readyState[s] = "NONE"
          /\ \A r \in WsIds : r < s => readyState[r] # "NONE"
          /\ SetSvc([Svc EXCEPT !.connectAwait = @ - 1, !.ws = s,
                                !.readyState[s] = "CONNECTING",
                                !.lastWs = [Event("socket") EXCEPT !.socket = s]])
    /\ UNCHANGED <<nextData, pings, nonWsVars>>

\* ... or finds no token and throws (lines 28-30, 84-89)
WsConnectNoToken ==
    /\ connectAwait > 0
    /\ SetSvc([Svc EXCEPT !.connectAwait = @ - 1, !.isConnecting = FALSE,
                          !.lastWs = Event("error")])
    /\ UNCHANGED <<nextData, pings, nonWsVars>>

\* ws.onopen (lines 37-46)
onopen(s) ==
    /\ readyState[s] = "CONNECTING"
    /\ LET o == [Svc EXCEPT !.readyState[s] = "OPEN", !.isConnected = TRUE,
                            !.isConnecting = FALSE, !.reconnectAttempts = 0,
                            !.sinceOpen = 0]
           f == flushMessageQueue(startHeartbeat(o))
       IN SetSvc([f EXCEPT !.lastWs = [Event("open") EXCEPT
                     !.socket = s,
                     !.flushed = SubSeq(f.wire, Len(wire) + 1, Len(f.wire)),
                     !.owed = owed]])
    /\ UNCHANGED <<nextData, pings, nonWsVars>>

\* ws.onclose (lines 65-76); a connection that fails runs ws.onerror
\* (lines 78-82) first, which only clears isConnecting.
onclose(s, code) ==
    /\ readyState[s] \in {"CONNECTING", "OPEN", "CLOSING"}
    /\ LET c == stopHeartbeat([Svc EXCEPT !.readyState[s] = "CLOSED",
                                          !.isConnected = FALSE,
                                          !.isConnecting = FALSE,
                                          !.lastWs = Event("disconnected")])
       IN SetSvc(IF code # 1000 /\ code # 1001 THEN attemptReconnect(c) ELSE c)
    /\ UNCHANGED <<nextData, pings, nonWsVars>>

\* the setTimeout callback of attemptReconnect (lines 184-190)
ReconnectTimer ==
    /\ reconnectTimers > 0
    /\ connectAwait < MaxAwait
    /\ LET t == [Svc EXCEPT !.reconnectTimers = @ - 1, !.lastWs = Event("timer")]
       IN SetSvc(IF ~t.isConnected /\ ~t.isConnecting THEN connect(t) ELSE t)
    /\ UNCHANGED <<nextData, pings, nonWsVars>>

\* The application calls disconnect().
WsDisconnect ==
    /\ SetSvc([disconnect(Svc) EXCEPT !.closedByApp = TRUE,
                                      !.lastWs = Event("disconnect")])
    /\ UNCHANGED <<nextData, pings, nonWsVars>>

\* The application calls send(data) with a new payload.
WsSend ==
    /\ nextData <= MaxData
    /\ SetSvc([send(Svc, Data(nextData)) EXCEPT !.lastWs = Event("send")])
    /\ nextData' = nextData + 1
    /\ UNCHANGED <<pings, nonWsVars>>

\* the setInterval callback of startHeartbeat (lines 208-218)
HeartbeatTick ==
    /\ heartbeatInterval
    /\ pings < MaxPings
    /\ SetSvc(IF isConnected
              THEN [send(Svc, PingData) EXCEPT !.heartbeatTimeout = TRUE,
                                               !.lastWs = Event("ping")]
              ELSE [Svc EXCEPT !.lastWs = Event("tick")])
    /\ pings' = pings + 1
    /\ UNCHANGED <<nextData, nonWsVars>>

\* the pong timeout (lines 213-216)
HeartbeatExpire ==
    /\ heartbeatTimeout
    /\ SetSvc([disconnect(Svc) EXCEPT
                  !.lastWs = [Event("heartbeat_timeout") EXCEPT !.socket = ws]])
    /\ UNCHANGED <<nextData, pings, nonWsVars>>

\* ws.onmessage with a pong (lines 48-55) and handlePong (lines 233-238)
handlePong ==
    /\ heartbeatTimeout
    /\ \E s \in WsIds : readyState[s] = "OPEN"
    /\ SetSvc([Svc EXCEPT !.heartbeatTimeout = FALSE, !.lastWs = Event("pong")])
    /\ UNCHANGED <<nextData, pings, nonWsVars>>

\* the constructor (lines 5-16)
WsInit ==
    /\ ws = NoWs
    /\ readyState = [s \in WsIds |-> "NONE"]
    /\ isConnected = FALSE
    /\ isConnecting = FALSE
    /\ reconnectAttempts = 0
    /\ messageQueue = <<>>
    /\ heartbeatInterval = FALSE
    /\ heartbeatTimeout = FALSE
    /\ reconnectTimers = 0
    /\ connectAwait = 0
    /\ nextData = 1
    /\ pings = 0
    /\ wire = <<>>
    /\ owed = <<>>
    /\ sinceOpen = 0
    /\ closedByApp = FALSE
    /\ lastWs = Event("none")

WsNext ==
    \/ WsConnect
    \/ WsConnectResume
    \/ WsConnectNoToken
    \/ \E s \in WsIds : onopen(s)
    \/ \E s \in WsIds, code \in CloseCodes : onclose(s, code)
    \/ ReconnectTimer
    \/ WsDisconnect
    \/ WsSend
    \/ HeartbeatTick
    \/ HeartbeatExpire
    \/ handlePong

(***************************************************************************)
(* useChat clients: src/src/hooks/useChat.js lines 112-297, against the    *)
(* session-registry server.  alice sends to bob; both poll; bob reads.     *)
(***************************************************************************)
Sender == "T1"
Recipient == "T3"
Clients == {"alice", "bob"}
TokenOf(c) == IF c = "alice" THEN Sender ELSE Recipient
PollLimit == 50
MaxContentLength == 4
Idle == [pc |-> "idle"]

\* saveLocalMessage (lines 257-287); null === null holds for two records
\* without a server id.
saveLocalMessage(existingMessages, message) ==
    LET messageExists ==
          \E i \in DOMAIN existingMessages :
             \/ existingMessages[i].id = message.id
             \/ /\ existingMessages[i].localId # NoLocal
                /\ existingMessages[i].localId = message.localId
    IN IF ~messageExists
       THEN SortAsc(Append(existingMessages, message))
       ELSE IF message.id # NoMsg
       THEN [i \in DOMAIN existingMessages |->
               IF existingMessages[i].localId = message.localId
               THEN message ELSE existingMessages[i]]
       ELSE existingMessages

\* Whether the server has received the POST of the call with this localId.
Delivered(localId) ==
    \/ sendReq # NoReq /\ sendReq.msg.localId = localId
    \/ lastSend.localId = localId

SetTry(localId, result) ==
    [i \in DOMAIN tries |->
        IF tries[i].localId = localId THEN [tries[i] EXCEPT !.result = result]
        ELSE tries[i]]

\* String.prototype.trim for the texts a caller passes to sendMessage
Blank == "  "
Oversize == "hello"
Texts == {"", Blank, "hi", Oversize}
Trim(text) == IF text = Blank THEN "" ELSE text

\* sendMessage (lines 175-229) up to the request: the optimistic record.
ChatSendStart(messageText) ==
    /\ Trim(messageText) # ""
    /\ sendPc = Idle
    /\ nextLocal <= MaxSends
    /\ LET tempMessage == [id |-> NoMsg, localId |-> nextLocal,
                           senderContactId |-> "alice",
                           recipientContactId |-> "bob",
                           content |-> Trim(messageText), timestamp |-> now,
                           status |-> "sending"]
       IN /\ chatLocal' = [chatLocal EXCEPT !["alice"] = saveLocalMessage(@, tempMessage)]
          /\ sendPc' = [pc |-> "posting", tempMessage |-> tempMessage]
          /\ tries' = Append(tries, [localId |-> nextLocal,
                                     content |-> Trim(messageText),
                                     result |-> "pending"])
    /\ nextLocal' = nextLocal + 1
    /\ UNCHANGED <<pollPc, polledAfter, nonChatVars>>

\* The POST of ApiService.sendMessage reaches the server.
ChatPost ==
    /\ sendPc.pc = "posting"
    /\ ~Delivered(sendPc.tempMessage.localId)
    /\ SendBegin(Sender, "bob", sendPc.tempMessage.content, sendPc.tempMessage.localId)

\* The response arrives: the record gets the server id (lines 200-213).
ChatSendOk ==
    /\ sendPc.pc = "posting"
    /\ lastSend.localId = sendPc.tempMessage.localId
    /\ lastSend.status = 200
    /\ LET updatedMessage == [sendPc.tempMessage EXCEPT
                                 !.id = lastSend.messageId,
                                 !.status = "sent",
                                 !.timestamp = lastSend.timestamp]
       IN chatLocal' = [chatLocal EXCEPT !["alice"] = saveLocalMessage(@, updatedMessage)]
    /\ sendPc' = Idle
    /\ tries' = SetTry(sendPc.tempMessage.localId, "ok")
    /\ UNCHANGED <<pollPc, nextLocal, polledAfter, nonChatVars>>

\* The request is aborted after the timeout, whatever the server did with
\* it: the catch block (lines 215-226) changes the screen only.
ChatSendTimeout ==
    /\ sendPc.pc = "posting"
    /\ sendPc' = Idle
    /\ tries' = SetTry(sendPc.tempMessage.localId, "timeout")
    /\ UNCHANGED <<chatLocal, pollPc, nextLocal, polledAfter, nonChatVars>>

\* The server answers 500: the same catch block.
ChatSendRejected ==
    /\ sendPc.pc = "posting"
    /\ lastSend.localId = sendPc.tempMessage.localId
    /\ lastSend.status = 500
    /\ sendPc' = Idle
    /\ tries' = SetTry(sendPc.tempMessage.localId, "failed")
    /\ UNCHANGED <<chatLocal, pollPc, nextLocal, polledAfter, nonChatVars>>

\* pollMessages (lines 150-173) is called by the 5 s interval.
ChatPollStart(c) ==
    /\ pollPc[c] = Idle
    /\ pollPc' = [pollPc EXCEPT ![c] =
                     [pc |-> "request",
                      readAtStart |-> {m \in MsgIds : messageStatus[m] = "read"},
                      msgs |-> <<>>]]
    /\ UNCHANGED <<chatLocal, sendPc, nextLocal, tries, polledAfter, nonChatVars>>

\* The GET of ApiService.getMessages(50) reaches the server.
ChatFetchBegin(c) ==
    /\ pollPc[c].pc = "request"
    /\ FetchBegin(TokenOf(c), PollLimit)

\* The poll of client c has merged everything it fetched.
PollDone(c) ==
    /\ pollPc' = [pollPc EXCEPT ![c] = Idle]
    /\ polledAfter' = [polledAfter EXCEPT ![c] = @ \cup pollPc[c].readAtStart]

\* The server finds the inbox empty and answers; or goes on to the delete.
ChatFetchGet ==
    /\ FetchGetEffect
    /\ IF fetchReq' = NoReq
       THEN PollDone(fetchReq.contactId)
       ELSE UNCHANGED <<pollPc, polledAfter>>
    /\ UNCHANGED <<chatLocal, sendPc, nextLocal, tries, storeVars, wsVars, saveVars, connVars>>

\* The server answers with the fetched messages.
ChatFetchCommit ==
    /\ FetchCommitEffect
    /\ pollPc' = [pollPc EXCEPT ![fetchReq.contactId] =
                     [@ EXCEPT !.pc = "saving", !.msgs = fetchReq.snapshot]]
    /\ UNCHANGED <<chatLocal, sendPc, nextLocal, tries, polledAfter, storeVars, wsVars, saveVars, connVars>>

\* The server answers 500: pollMessages logs the error (lines 170-172).
ChatFetchCommitFail ==
    /\ FetchCommitFailEffect
    /\ pollPc' = [pollPc EXCEPT ![fetchReq.contactId] = Idle]
    /\ UNCHANGED <<chatLocal, sendPc, nextLocal, tries, polledAfter, storeVars, wsVars, saveVars, connVars>>

\* One turn of the loop of lines 156-163: saveLocalMessage.
ChatPollSave(c) ==
    /\ pollPc[c].pc = "saving"
    /\ LET message == Head(pollPc[c].msgs) IN
       /\ chatLocal' = [chatLocal EXCEPT ![c] = saveLocalMessage(@, message)]
       /\ IF message.recipientContactId = c /\ message.status = "sent"
          THEN /\ pollPc' = [pollPc EXCEPT ![c].pc = "deliver"]
               /\ UNCHANGED polledAfter
          ELSE IF Len(pollPc[c].msgs) = 1
          THEN PollDone(c)
          ELSE /\ pollPc' = [pollPc EXCEPT ![c].msgs = Tail(@)]
               /\ UNCHANGED polledAfter
    /\ UNCHANGED <<sendPc, nextLocal, tries, nonChatVars>>

\* ... and markMessageDelivered for a message addressed to this client.
ChatPollDeliver(c) ==
    /\ pollPc[c].pc = "deliver"
    /\ MarkStatusEffect(TokenOf(c), Head(pollPc[c].msgs).id, "delivered")
    /\ IF Len(pollPc[c].msgs) = 1
       THEN PollDone(c)
       ELSE /\ pollPc' = [pollPc EXCEPT ![c].msgs = Tail(@), ![c].pc = "saving"]
            /\ UNCHANGED polledAfter
    /\ UNCHANGED <<chatLocal, sendPc, nextLocal, tries, storeVars, wsVars, saveVars, connVars>>

\* markAsRead (lines 231-243) for a message the recipient has on screen.
ChatMarkRead(messageId) ==
    /\ \E i \in DOMAIN chatLocal["bob"] : chatLocal["bob"][i].id = messageId
    /\ messageStatus[messageId] # "read"
    /\ MarkStatus(Recipient, messageId, "read")

\* Two callers of saveLocalMessage for alice's chat with bob: sendMessage
\* with its optimistic record and then the record the response gave an id
\* (lines 192, 211), and pollMessages with the messages of bob, one after
\* the other (line 157).
Callers == {"send", "poll"}
SentRecord(id) ==
    [id |-> id, localId |-> 1, senderContactId |-> "alice",
     recipientContactId |-> "bob", content |-> "hi", timestamp |-> 0,
     status |-> IF id = NoMsg THEN "sending" ELSE "sent"]
MessagesOf(caller) ==
    IF caller = "send"
    THEN <<SentRecord(NoMsg), SentRecord(MaxSends + 2)>>
    ELSE [id \in 1..MaxSends + 1 |->
            [id |-> id, localId |-> NoLocal, senderContactId |-> "bob",
             recipientContactId |-> "alice", content |-> "yo", timestamp |-> 0,
             status |-> "sent"]]
NoCall == [pc |-> "idle", saved |-> 0, existingMessages |-> <<>>]

\* saveLocalMessage up to its first await: StorageService.getData (line 264)
SaveRead(caller) ==
    /\ saveCalls[caller].pc = "idle"
    /\ saveCalls[caller].saved < Len(MessagesOf(caller))
    /\ saveCalls' = [saveCalls EXCEPT ![caller].pc = "read",
                                      ![caller].existingMessages = chatLocal["alice"]]
    /\ UNCHANGED <<chatVars, regVars, storeVars, wsVars, connVars>>

\* saveLocalMessage from the array it has read to StorageService.storeData
\* (lines 267-283): the array read before the await is what it extends and
\* writes back; nothing is written when the message exists and has no id.
SaveWrite(caller) ==
    /\ saveCalls[caller].pc = "read"
    /\ LET call == saveCalls[caller]
           written == saveLocalMessage(call.existingMessages,
                                       MessagesOf(caller)[call.saved + 1])
       IN /\ chatLocal' = IF written = call.existingMessages THEN chatLocal
                          ELSE [chatLocal EXCEPT !["alice"] = written]
          /\ saveCalls' = [saveCalls EXCEPT ![caller] =
                              [NoCall EXCEPT !.saved = call.saved + 1]]
    /\ UNCHANGED <<sendPc, pollPc, nextLocal, tries, polledAfter, regVars,
                   storeVars, wsVars, connVars>>

ChatInit ==
    /\ saveCalls = [caller \in Callers |-> NoCall]
    /\ chatLocal = [c \in Clients |-> <<>>]
    /\ sendPc = Idle
    /\ pollPc = [c \in Clients |-> Idle]
    /\ nextLocal = 1
    /\ tries = <<>>
    /\ polledAfter = [c \in Clients |-> {}]

(***************************************************************************)
(* Connection-registry server: src/App.tsx lines 669-1315.  The socket     *)
(* handlers, each split at its awaits, and the cleanup of inactive         *)
(* connections.  An await of one handler may resolve before or after an    *)
(* await of another.                                                       *)
(***************************************************************************)
MaxConnSockets == 2
InactiveThreshold == 1
ConnSockIds == 1..MaxConnSockets

\* activeConnections.get(userId) of an account without a connection
NoConn == [socketId |-> NoSock, contactId |-> NoToken, lastActive |-> 0]

\* the Maps, the connected sockets and the suspended disconnect handlers
ConnReg ==
    [conns |-> activeConnections, s2u |-> connSocketToUser,
     sockets |-> connSockets, disc |-> connDisc]

SetConn(c) ==
    /\ activeConnections' = c.conns
    /\ connSocketToUser' = c.s2u
    /\ connSockets' = c.sockets
    /\ connDisc' = c.disc

\* socket.on('disconnect') up to its await (lines 1246-1253): with a
\* connection recorded for the socket's account the handler is suspended at
\* db.update, holding userId and the connection it read; without one it runs
\* to its end (lines 1267-1268).
OnConnDisconnect(c, s) ==
    LET userId == c.s2u[s] IN
    IF userId = NoUser THEN c
    ELSE IF c.conns[userId] # NoConn
         THEN [c EXCEPT !.disc = @ \cup
                  {[socket |-> s, userId |-> userId,
                    contactId |-> c.conns[userId].contactId]}]
         ELSE [c EXCEPT !.s2u[s] = NoUser]

\* socket.disconnect(true): the socket leaves io.sockets.sockets and its
\* 'disconnect' handler is called before disconnect() returns.
ConnServerDisconnect(c, s) ==
    IF s \in c.sockets
    THEN OnConnDisconnect([c EXCEPT !.sockets = @ \ {s}], s)
    ELSE c

\* io.on('connection') (line 1159)
ConnConnect ==
    /\ connNextSock <= MaxConnSockets
    /\ connSockets' = connSockets \cup {connNextSock}
    /\ connNextSock' = connNextSock + 1
    /\ UNCHANGED <<activeConnections, connSocketToUser, contactToUser, connAuth,
                   connDisc, isOnline, presence, authenticatedAs, connEmitted>>
    /\ UNCHANGED <<regVars, storeVars, wsVars, chatVars, saveVars>>

\* The client closes the socket or the transport is lost: 'disconnect'.
ConnDisconnect(s) ==
    /\ s \in connSockets
    /\ SetConn(ConnServerDisconnect(ConnReg, s))
    /\ UNCHANGED <<contactToUser, connNextSock, connAuth, isOnline, presence,
                   authenticatedAs, connEmitted>>
    /\ UNCHANGED <<regVars, storeVars, wsVars, chatVars, saveVars>>

\* socket.on('authenticate') up to await verifyIdToken (lines 1162-1172)
ConnAuthBegin(s, token, contactId) ==
    /\ s \in connSockets
    /\ \A p \in connAuth : p.socket # s
    /\ IF token = NoToken \/ contactId = NoToken
       THEN /\ connEmitted' = [connEmitted EXCEPT ![s] = "auth_error"]
            /\ UNCHANGED connAuth
       ELSE /\ connAuth' = connAuth \cup
                   {[socket |-> s, token |-> token, contactId |-> contactId,
                     pc |-> "verify"]}
            /\ UNCHANGED connEmitted
    /\ UNCHANGED <<activeConnections, connSocketToUser, contactToUser, connSockets,
                   connNextSock, connDisc, isOnline, presence, authenticatedAs>>
    /\ UNCHANGED <<regVars, storeVars, wsVars, chatVars, saveVars>>

\* Lines 1176-1186: the socket recorded for the account, when it is another
\* one, is told connection_replaced and disconnected, and its socketToUser
\* entry is deleted.
ReplaceExisting(c, userId, s) ==
    LET existingConnection == c.conns[userId]
        old == existingConnection.socketId
    IN IF existingConnection # NoConn /\ old # NoSock /\ old # s
       THEN [ConnServerDisconnect(c, old) EXCEPT !.s2u[old] = NoUser]
       ELSE c

\* Lines 1189-1195: the new connection is stored.
StoreConnection(c, userId, s, contactId) ==
    [c EXCEPT !.conns[userId] = [socketId |-> s, contactId |-> contactId,
                                 lastActive |-> now],
              !.s2u[s] = userId]

\* socket.on('authenticate') from the result of verifyIdToken to
\* await db.update (lines 1172-1202); a token that does not verify goes to the
\* catch block (lines 1211-1215).
ConnAuthVerified(p) ==
    /\ p \in connAuth
    /\ p.pc = "verify"
    /\ IF ~verifyIdToken(p.token)
       THEN /\ SetConn(ConnServerDisconnect(ConnReg, p.socket))
            /\ connEmitted' = [connEmitted EXCEPT ![p.socket] = "auth_error"]
            /\ connAuth' = connAuth \ {p}
            /\ UNCHANGED contactToUser
       ELSE LET userId == TokenUid(p.token)
                existingConnection == activeConnections[userId]
                old == existingConnection.socketId
                replaced == /\ existingConnection # NoConn
                            /\ old # NoSock /\ old # p.socket
                            /\ old \in connSockets
            IN /\ SetConn(StoreConnection(ReplaceExisting(ConnReg, userId, p.socket),
                                          userId, p.socket, p.contactId))
               /\ contactToUser' = [contactToUser EXCEPT ![p.contactId] = userId]
               /\ connEmitted' = IF replaced
                                 THEN [connEmitted EXCEPT ![old] = "connection_replaced"]
                                 ELSE connEmitted
               /\ connAuth' = (connAuth \ {p}) \cup {[p EXCEPT !.pc = "update"]}
    /\ UNCHANGED <<connNextSock, isOnline, presence, authenticatedAs>>
    /\ UNCHANGED <<regVars, storeVars, wsVars, chatVars, saveVars>>

\* socket.on('authenticate') after db.update has resolved (lines 1199-1209)
ConnAuthUpdated(p) ==
    /\ p \in connAuth
    /\ p.pc = "update"
    /\ connAuth' = connAuth \ {p}
    /\ isOnline' = [isOnline EXCEPT ![TokenUid(p.token)] = TRUE]
    /\ connEmitted' = [connEmitted EXCEPT ![p.socket] = "authenticated"]
    /\ authenticatedAs' = [authenticatedAs EXCEPT ![p.socket] = TokenUid(p.token)]
    /\ presence' = [presence EXCEPT ![TokenUid(p.token)] = "user_online"]
    /\ UNCHANGED <<activeConnections, connSocketToUser, contactToUser, connSockets,
                   connNextSock, connDisc>>
    /\ UNCHANGED <<regVars, storeVars, wsVars, chatVars, saveVars>>

\* socket.on('authenticate') when db.update throws: the catch block
\* (lines 1211-1215)
ConnAuthUpdateFails(p) ==
    /\ p \in connAuth
    /\ p.pc = "update"
    /\ connAuth' = connAuth \ {p}
    /\ SetConn(ConnServerDisconnect(ConnReg, p.socket))
    /\ connEmitted' = [connEmitted EXCEPT ![p.socket] = "auth_error"]
    /\ UNCHANGED <<contactToUser, connNextSock, isOnline, presence, authenticatedAs>>
    /\ UNCHANGED <<regVars, storeVars, wsVars, chatVars, saveVars>>

\* socket.on('disconnect') after db.update has resolved (lines 1253-1268)
ConnDiscResume(d) ==
    /\ d \in connDisc
    /\ connDisc' = connDisc \ {d}
    /\ isOnline' = [isOnline EXCEPT ![d.userId] = FALSE]
    /\ presence' = [presence EXCEPT ![d.userId] = "user_offline"]
    /\ contactToUser' = [contactToUser EXCEPT ![d.contactId] = NoUser]
    /\ activeConnections' = [activeConnections EXCEPT ![d.userId] = NoConn]
    /\ connSocketToUser' = [connSocketToUser EXCEPT ![d.socket] = NoUser]
    /\ UNCHANGED <<connSockets, connNextSock, connAuth, authenticatedAs, connEmitted>>
    /\ UNCHANGED <<regVars, storeVars, wsVars, chatVars, saveVars>>

\* socket.on('disconnect') when db.update throws: the catch block logs, then
\* lines 1267-1268
ConnDiscFails(d) ==
    /\ d \in connDisc
    /\ connDisc' = connDisc \ {d}
    /\ activeConnections' = [activeConnections EXCEPT ![d.userId] = NoConn]
    /\ connSocketToUser' = [connSocketToUser EXCEPT ![d.socket] = NoUser]
    /\ UNCHANGED <<contactToUser, connSockets, connNextSock, connAuth, isOnline,
                   presence, authenticatedAs, connEmitted>>
    /\ UNCHANGED <<regVars, storeVars, wsVars, chatVars, saveVars>>

\* now - connection.lastActive > inactiveThreshold (line 1304)
Inactive(connection) ==
    connection # NoConn /\ now - connection.lastActive > InactiveThreshold

\* One turn of the cleanup loop (lines 1304-1313) for userId
CleanupOne(r, userId) ==
    LET connection == r.c.conns[userId] IN
    IF ~Inactive(connection) THEN r
    ELSE [c |-> [ConnServerDisconnect(r.c, connection.socketId) EXCEPT
                    !.conns[userId] = NoConn,
                    !.s2u[connection.socketId] = NoUser],
          c2u |-> [r.c2u EXCEPT ![connection.contactId] = NoUser]]

\* setInterval cleanup (lines 1299-1315): the turns of the loop touch the
\* entries of different accounts, in the order of the Map
ConnCleanup ==
    /\ \E userId \in Users : Inactive(activeConnections[userId])
    /\ LET r == CleanupOne(CleanupOne([c |-> ConnReg, c2u |-> contactToUser], "u1"),
                           "u2")
       IN /\ SetConn(r.c)
          /\ contactToUser' = r.c2u
    /\ UNCHANGED <<connNextSock, connAuth, isOnline, presence, authenticatedAs,
                   connEmitted>>
    /\ UNCHANGED <<regVars, storeVars, wsVars, chatVars, saveVars>>

ConnInit ==
    /\ activeConnections = [userId \in Users |-> NoConn]
    /\ connSocketToUser = [s \in ConnSockIds |-> NoUser]
    /\ contactToUser = [contactId \in ContactIds |-> NoUser]
    /\ connSockets = {}
    /\ connNextSock = 1
    /\ connAuth = {}
    /\ connDisc = {}
    /\ isOnline = [userId \in Users |-> FALSE]
    /\ presence = [userId \in Users |-> "none"]
    /\ authenticatedAs = [s \in ConnSockIds |-> NoUser]
    /\ connEmitted = [s \in ConnSockIds |-> "none"]

\* What the sockets send with 'authenticate': the token of one account with
\* either contactId, a token that does not verify, and a missing token.
ConnInputs == {<<"T1", "alice">>, <<"T1", "bob">>, <<BadToken, "alice">>,
               <<NoToken, "alice">>}

ConnNext ==
    \/ ConnConnect
    \/ \E s \in ConnSockIds : ConnDisconnect(s)
    \/ \E s \in ConnSockIds, in \in ConnInputs : ConnAuthBegin(s, in[1], in[2])
    \/ \E p \in connAuth : ConnAuthVerified(p)
    \/ \E p \in connAuth : ConnAuthUpdated(p)
    \/ \E p \in connAuth : ConnAuthUpdateFails(p)
    \/ \E d \in connDisc : ConnDiscResume(d)
    \/ \E d \in connDisc : ConnDiscFails(d)
    \/ ConnCleanup
    \/ Tick

(***************************************************************************)
(* Specification of the session-registry server                            *)
(***************************************************************************)
NoAuth == [token |-> NoToken, ok |-> FALSE, latest |-> NoToken, prev |-> NoToken]
NoSend == [status |-> 0, messageId |-> NoMsg, localId |-> NoLocal, timestamp |-> 0,
           recipientOnline |-> FALSE, pushed |-> FALSE, live |-> FALSE]
NoFetch == [status |-> 0, contactId |-> "", messages |-> <<>>]

StoreInit ==
    /\ stored = <<>>
    /\ chatMeta = [lastMessage |-> "", lastMessageTime |-> -1]
    /\ lastOp = NoOp

RegBase ==
    /\ activeSessions = <<>>
    /\ socketToUser = [s \in SockIds |-> NoUser]
    /\ ioSockets = {}
    /\ nextSock = 1
    /\ pendingAuth = {}
    /\ emitted = [s \in SockIds |-> "none"]
    /\ now = 0
    /\ messageInbox = [c \in ContactIds |-> <<>>]
    /\ messageStatus = [m \in MsgIds |-> "none"]
    /\ nextMsg = 1
    /\ sendReq = NoReq
    /\ fetchReq = NoReq
    /\ lastAuth = NoAuth
    /\ lastSend = NoSend
    /\ lastFetch = NoFetch
    /\ lastLogin = [u \in Users |-> NoToken]
    /\ prevLogin = [u \in Users |-> NoToken]
    /\ accepted = {}
    /\ returned = [c \in ContactIds |-> {}]

RegInit == RegBase /\ observe = FALSE

Init == RegInit /\ StoreInit /\ WsInit /\ ChatInit /\ ConnInit

\* The device a login names: one device per token.
DeviceOf(t) == IF t = "T2" THEN "D2" ELSE "D1"

SessionNext ==
    \/ \E t \in Tokens, c \in ContactIds : Login(t, c, DeviceOf(t))
    \/ \E t \in Tokens : Logout(t)
    \/ \E t \in Tokens : AuthMe(t)
    \/ \E t \in Tokens \cup {BadToken} : AuthReject(t)
    \/ Sweep
    \/ Tick

SocketNext ==
    \/ SocketConnect
    \/ \E s \in SockIds, t \in Tokens \cup {BadToken, NoToken}, c \in ContactIds :
          SockAuthBegin(s, t, c)
    \/ \E p \in pendingAuth : SockAuthResume(p)
    \/ \E s \in SockIds : SocketDisconnect(s)

Next == SessionNext

Spec == Init /\ [][Next]_vars

SpecStore == Init /\ [][StoreNext]_vars

\* The store written only by addChatMessage, with messages as the sending
\* screen hands them over (status sending or sent), and by
\* addMultipleMessages, with messages as the server returns them (sent).
SentOnly == {Msg(i, "sent") : i \in 1..MaxIds}
ReadNext ==
    \/ \E m \in SentOnly \cup {Msg(i, "sending") : i \in 1..MaxIds} : addChatMessage(m)
    \/ \E b \in UNION {[1..n -> SentOnly] : n \in 1..MaxBatch} : addMultipleMessages(b)

SpecRead == Init /\ [][ReadNext]_vars

SpecWs == Init /\ [][WsNext]_vars

\* Both clients log in once, then send, poll and read.
ChatNext ==
    \/ \E c \in Clients :
          /\ ~MapHas(activeSessions, TokenUid(TokenOf(c)))
          /\ Login(TokenOf(c), c, DeviceOf(TokenOf(c)))
    \/ ChatSendStart("hi")
    \/ ChatPost
    \/ SendWrite
    \/ SendWriteFail
    \/ SendNotify
    \/ ChatSendOk
    \/ ChatSendTimeout
    \/ ChatSendRejected
    \/ \E c \in Clients : ChatPollStart(c)
    \/ \E c \in Clients : ChatFetchBegin(c)
    \/ ChatFetchGet
    \/ ChatFetchCommit
    \/ ChatFetchCommitFail
    \/ \E c \in Clients : ChatPollSave(c)
    \/ \E c \in Clients : ChatPollDeliver(c)
    \/ \E m \in MsgIds : ChatMarkRead(m)

SpecChat == Init /\ [][ChatNext]_vars

\* alice alone, sending texts of every kind: blank, short and longer than
\* the server's bound.
ComposeNext ==
    \/ Login(Sender, "alice", DeviceOf(Sender))
    \/ \E messageText \in Texts : ChatSendStart(messageText)
    \/ ChatPost
    \/ SendWrite
    \/ SendWriteFail
    \/ SendNotify
    \/ ChatSendOk
    \/ ChatSendTimeout
    \/ ChatSendRejected

SpecCompose == Init /\ [][ComposeNext]_vars

\* The local store of one chat under saveLocalMessage calls of sendMessage
\* and pollMessages that run between each other's awaits.
OverlapNext ==
    \/ \E caller \in Callers : SaveRead(caller)
    \/ \E caller \in Callers : SaveWrite(caller)

SpecOverlap == Init /\ [][OverlapNext]_vars

SpecConn == Init /\ [][ConnNext]_vars

(***************************************************************************)
(* Specification of message delivery through the session-registry server:  *)
(* two accounts, their sockets, /api/chat/send and /api/chat/messages      *)
(***************************************************************************)
InboxInit == Init

\* The sender logs in once; the recipient logs in and out, connects and
\* disconnects sockets, and fetches.
InboxNext ==
    \/ \E t \in {Sender, Recipient} :
          /\ ~MapHas(activeSessions, TokenUid(t)) \/ t = Recipient
          /\ Login(t, IF t = Sender THEN "alice" ELSE "bob", DeviceOf(t))
    \/ Logout(Recipient)
    \/ nextSock <= MaxInboxSockets /\ SocketConnect
    \/ \E s \in SockIds : SockAuthBegin(s, Recipient, "bob")
    \/ \E p \in pendingAuth : SockAuthResume(p)
    \/ \E s \in SockIds : SocketDisconnect(s)
    \/ SendBegin(Sender, "bob", "hi", NoLocal)
    \/ SendWrite
    \/ SendWriteFail
    \/ SendNotify
    \/ \E l \in {0, 1} : FetchBegin(Recipient, l)
    \/ FetchGet
    \/ FetchCommit
    \/ FetchCommitFail

SpecInbox == InboxInit /\ [][InboxNext]_vars

(***************************************************************************)
(* Specification of the sockets of the session-registry server: one        *)
(* account that logs in (again and again) with token T1, and sockets that  *)
(* authenticate with T1, with the account's other token T2, with a token   *)
(* that does not verify, or without a token or contactId.  SpecSweep adds  *)
(* the clock and the sweep of expired sessions.                            *)
(***************************************************************************)
AuthInputs == {<<"T1", "alice">>, <<"T1", "bob">>, <<"T2", "alice">>,
               <<BadToken, "alice">>, <<NoToken, "alice">>, <<"T1", NoToken>>}

SockInit == RegBase /\ observe = TRUE /\ StoreInit /\ WsInit /\ ChatInit /\ ConnInit

SockNext ==
    \/ Login("T1", "alice", DeviceOf("T1"))
    \/ Logout("T1")
    \/ SocketConnect
    \/ \E s \in SockIds, in \in AuthInputs : SockAuthBegin(s, in[1], in[2])
    \/ \E p \in pendingAuth : SockAuthResume(p)
    \/ \E s \in SockIds : SocketDisconnect(s)

SpecSock == SockInit /\ [][SockNext]_vars

SweepNext == SockNext \/ Sweep \/ Tick

SpecSweep == SockInit /\ [][SweepNext]_vars

\* The sockets of one account whose session expires and is created again:
\* logins, the clock, the sweep, and sockets that authenticate for the
\* session, send heartbeat pings and disconnect.
ExpiryNext ==
    \/ Login("T1", "alice", DeviceOf("T1"))
    \/ Sweep
    \/ Tick
    \/ SocketConnect
    \/ \E s \in SockIds : SockAuthBegin(s, "T1", "alice")
    \/ \E p \in pendingAuth : SockAuthResume(p)
    \/ \E s \in SockIds : SocketDisconnect(s)
    \/ \E s \in SockIds : Ping(s)

SpecExpiry == SockInit /\ [][ExpiryNext]_vars

\* Two accounts, alice (T1) and bob (T3), and sockets that authenticate for
\* either of them, any number of times.
AccountsNext ==
    \/ \E t \in {"T1", "T3"} :
          Login(t, IF t = "T1" THEN "alice" ELSE "bob", DeviceOf(t))
    \/ SocketConnect
    \/ \E s \in SockIds, t \in {"T1", "T3"} :
          SockAuthBegin(s, t, IF t = "T1" THEN "alice" ELSE "bob")
    \/ \E p \in pendingAuth : SockAuthResume(p)
    \/ \E s \in SockIds : SocketDisconnect(s)

SpecAccounts == SockInit /\ [][AccountsNext]_vars

(***************************************************************************)
(* Claims about the session-registry server                                *)
(***************************************************************************)
OneSessionPerAccount ==
    \A u \in Users : Cardinality(MapIdx(activeSessions, u)) <= 1

C8_RecipientOnlineIffPushed ==
    lastSend.status = 200 =>
        (lastSend.recipientOnline <=> (lastSend.live /\ lastSend.pushed))

InInboxAsSent(a) ==
    \E i \in DOMAIN messageInbox[a.to] :
        /\ messageInbox[a.to][i].id = a.id
        /\ messageInbox[a.to][i].status = "sent"

CountId(list, id) == Cardinality({i \in DOMAIN list : list[i].id = id})
DistinctIds(msgs) == \A i, j \in DOMAIN msgs : msgs[i].id = msgs[j].id => i = j
Remerge ==
    /\ lastOp.kind \in {"add", "multi"}
    /\ lastOp'.kind \in {"add", "multi"}
    /\ lastOp'.msgs = lastOp.msgs
    /\ DistinctIds(lastOp.msgs)

\* C2: merging the same remote messages a second time, through addChatMessage
\* or addMultipleMessages, leaves the stored list as the first merge left it,
\* with exactly one record for each merged id.
C2_MergeTwiceIdempotent ==
    [][Remerge =>
          /\ stored' = stored
          /\ \A i \in DOMAIN lastOp'.msgs : CountId(stored', lastOp'.msgs[i].id) = 1]_vars

RanksOf(list, id) == {Rank(list[i].status) : i \in {j \in DOMAIN list : list[j].id = id}}

\* C3: the stored status of a message never moves backwards along
\* sending, sent, delivered, read.
C3_StatusOnlyForward ==
    [][\A id \in 1..MaxIds :
          \A old \in RanksOf(stored, id), new \in RanksOf(stored', id) : new >= old]_vars

\* C5: once a merge has taken the chat over MAX_MESSAGES_PER_CHAT, the
\* persisted list holds exactly MESSAGE_CLEANUP_THRESHOLD messages, none of
\* them older than a discarded one.
C5_EvictionKeepsThreshold ==
    lastOp.exceeded =>
        /\ Len(stored) = MESSAGE_CLEANUP_THRESHOLD
        /\ \A r \in Range(stored), d \in lastOp.discarded : r.timestamp >= d.timestamp

NoRepeat(seq) == \A i, j \in DOMAIN seq : seq[i] = seq[j] => i = j

\* C6: every payload passed to send() while the transport is not open stays
\* queued, in order, until it is transmitted; the flush run by the next open
\* of the current transport transmits exactly those payloads in that order;
\* and no payload is transmitted twice.
C6_QueueFlushedInOrderOnce ==
    /\ messageQueue = owed
    /\ (lastWs.kind = "open" /\ lastWs.socket = ws) =>
          (lastWs.flushed = lastWs.owed /\ messageQueue = <<>>)
    /\ NoRepeat(wire)

\* C7: the k-th reconnect attempt scheduled since the last successful open
\* waits reconnectInterval * 2^(k-1).
C7_BackoffDoubles ==
    lastWs.kind = "reconnect" => lastWs.delay = reconnectInterval * Pow2(lastWs.k - 1)

HiRecords == {i \in DOMAIN chatLocal["alice"] : chatLocal["alice"][i].content = "hi"}
Resubmitted ==
    /\ Len(tries) = 2
    /\ tries[1].result = "timeout"
    /\ tries[2].result = "ok"
    /\ tries[1].content = tries[2].content
    /\ \E a \in accepted : a.localId = tries[1].localId
    /\ sendPc = Idle
    /\ pollPc["alice"] = Idle

\* C4: when a message was submitted again because its first request timed
\* out although the server had stored it, then once both calls have ended and
\* no poll is running the sender's local store holds exactly one record of
\* the message, in status sent, with the id the server gave the first request.
C4_ResubmitOneRecord ==
    Resubmitted =>
        /\ Cardinality(HiRecords) = 1
        /\ \A i \in HiRecords :
              /\ chatLocal["alice"][i].status = "sent"
              /\ \E a \in accepted : /\ a.localId = tries[1].localId
                                     /\ a.id = chatLocal["alice"][i].id

\* C10: once the sender has completed a poll that began after the recipient's
\* POST /chat/read/:id was processed, the sender's local copy of that message
\* is in status read.
C10_ReadReachesSender ==
    \A m \in polledAfter["alice"] :
       \A i \in DOMAIN chatLocal["alice"] :
          chatLocal["alice"][i].id = m => chatLocal["alice"][i].status = "read"

(***************************************************************************)
(* Sockets of the session-registry server                                  *)
(***************************************************************************)
\* The sockets that are connected and recorded in socketToUser.
AuthenticatedSockets == {s \in ioSockets : socketToUser[s] # NoUser}

\* C11: every connected socket recorded in socketToUser belongs to an
\* existing session whose socketId names that socket, so a session that was
\* removed or replaced (login, logout, sweep) leaves no such socket behind.
C11_SocketHasSession ==
    \A s \in AuthenticatedSockets :
       /\ MapHas(activeSessions, socketToUser[s])
       /\ MapGet(activeSessions, socketToUser[s]).socketId = s

\* The socket a user's session names, NoSock without a session.
SocketOf(sess, userId) ==
    IF MapHas(sess, userId) THEN MapGet(sess, userId).socketId ELSE NoSock

\* A step in which the session of userId goes from naming the connected
\* socket old to naming another socket.
Replaces(userId, old) ==
    /\ old \in ioSockets
    /\ SocketOf(activeSessions, userId) = old
    /\ SocketOf(activeSessions', userId) \notin {old, NoSock}

\* C17: in every step in which a socket authenticates for an account whose
\* session names another connected socket, the old socket gets
\* connection_replaced as its last event and is disconnected, its
\* socketToUser entry is gone, and afterwards the new socket is the only one
\* recorded for the account, in the session and in socketToUser.
C17_OldSocketReplaced ==
    [][\A userId \in Users : \A old \in SockIds :
          Replaces(userId, old) =>
             /\ old \notin ioSockets'
             /\ emitted'[old] = "connection_replaced"
             /\ socketToUser'[old] = NoUser
             /\ {s \in SockIds : socketToUser'[s] = userId}
                   = {SocketOf(activeSessions', userId)}]_vars

\* Socket 1 was replaced by socket 2, which the session now names.
C17_Witness ==
    /\ emitted[1] = "connection_replaced"
    /\ 1 \notin ioSockets
    /\ \E userId \in Users : /\ SocketOf(activeSessions, userId) = 2
                             /\ socketToUser[2] = userId
    /\ 2 \in ioSockets

\* C18: a socket whose last event from the server is authentication_failed
\* has been closed by the server and is recorded neither in socketToUser nor
\* as the socketId of a session.
C18_FailedAuthClosed ==
    \A s \in SockIds :
       emitted[s] = "authentication_failed" =>
          /\ s \notin ioSockets
          /\ socketToUser[s] = NoUser
          /\ \A userId \in Users : SocketOf(activeSessions, userId) # s

(***************************************************************************)
(* WebSocketService: timers                                                *)
(***************************************************************************)
\* C12: while the application's last call is disconnect(), the callback of a
\* reconnect timer starts no connection, and no heartbeat sends a ping.
C12_StaysDisconnected ==
    [][closedByApp =>
          /\ reconnectTimers' < reconnectTimers =>
                /\ connectAwait' = connectAwait
                /\ ~isConnecting'
          /\ pings' > pings => lastWs'.kind # "ping"]_vars

\* The close event of the transport that the pong timeout has just closed.
TimedOutTransportCloses ==
    /\ lastWs.kind = "heartbeat_timeout"
    /\ lastWs.socket # NoWs
    /\ readyState[lastWs.socket] = "CLOSING"
    /\ readyState'[lastWs.socket] = "CLOSED"

\* C19: when the pong timeout has closed the connection, the close event of
\* that transport schedules a reconnect attempt.
C19_TimeoutReconnects ==
    [][TimedOutTransportCloses => reconnectTimers' = reconnectTimers + 1]_vars

\* C20: reconnectAttempts goes back to zero only in ws.onopen, and no more
\* than maxReconnectAttempts reconnect attempts are scheduled since the last
\* onopen.
C20_AttemptsResetOnlyOnOpen ==
    [][/\ reconnectAttempts > 0 /\ reconnectAttempts' = 0 => lastWs'.kind = "open"
       /\ sinceOpen' <= maxReconnectAttempts]_vars

(***************************************************************************)
(* StorageService: order of the messages read                              *)
(***************************************************************************)
OldestFirst(messages) ==
    \A i, j \in DOMAIN messages :
       i < j => messages[i].timestamp <= messages[j].timestamp

LocalRecords(localId) ==
    {i \in DOMAIN chatLocal["alice"] : chatLocal["alice"][i].localId = localId}

\* C13: from the moment sendMessage has written its optimistic record until
\* the call ends, so whenever the request is or may be issued, the local
\* store holds a record with the call's localId.
C13_OptimisticRecordPersisted ==
    sendPc.pc = "posting" => LocalRecords(sendPc.tempMessage.localId) # {}

\* C14: once a call of sendMessage has ended because its request timed out
\* or was answered with an error, the local store holds the call's record,
\* and holds it in status failed.
C14_FailedSendMarkedFailed ==
    \A t \in DOMAIN tries :
       tries[t].result \in {"timeout", "failed"} =>
          /\ LocalRecords(tries[t].localId) # {}
          /\ \A i \in LocalRecords(tries[t].localId) :
                chatLocal["alice"][i].status = "failed"

\* Content that is not empty after trimming and within the length bound.
ValidContent(content) ==
    /\ Trim(content) # ""
    /\ Len(Trim(content)) <= MaxContentLength

\* C15: content that is empty after trimming or longer than the length bound
\* never gets into the local store or into a request.
C15_InvalidContentRejected ==
    /\ \A i \in DOMAIN chatLocal["alice"] : ValidContent(chatLocal["alice"][i].content)
    /\ sendPc.pc = "posting" => ValidContent(sendPc.tempMessage.content)
    /\ sendReq # NoReq => ValidContent(sendReq.msg.content)

(***************************************************************************)
(* Session-registry server: the disconnect handler                         *)
(***************************************************************************)
\* C22: in every reachable state, the disconnect of any connected socket
\* keeps every session with its token, contactId, deviceId and lastActivity,
\* removes and adds none, and changes a session's socketId only from the
\* disconnecting socket to none.
C22_DisconnectKeepsSession ==
    \A s \in ioSockets :
       LET after == ServerDisconnect(CurReg, s).sess IN
       /\ Len(after) = Len(activeSessions)
       /\ \A i \in DOMAIN activeSessions :
             /\ after[i][1] = activeSessions[i][1]
             /\ after[i][2].token = activeSessions[i][2].token
             /\ after[i][2].contactId = activeSessions[i][2].contactId
             /\ after[i][2].deviceId = activeSessions[i][2].deviceId
             /\ after[i][2].lastActivity = activeSessions[i][2].lastActivity
             /\ after[i][2].socketId =
                   IF activeSessions[i][2].socketId = s THEN NoSock
                   ELSE activeSessions[i][2].socketId

\* A connected socket is still recorded for a user whose session names
\* another connected socket: its disconnect is the late one.
C22_Witness ==
    \E s \in ioSockets, userId \in Users :
       /\ socketToUser[s] = userId
       /\ SocketOf(activeSessions, userId) \in ioSockets \ {s}

\* C29: no two accounts' sessions name the same connected socket, and
\* socketToUser maps the connected socket a session names to that session's
\* account.
C29_SocketInOneSession ==
    \A userId \in Users :
       LET s == SocketOf(activeSessions, userId) IN
       s \in ioSockets =>
          /\ socketToUser[s] = userId
          /\ \A other \in Users \ {userId} : SocketOf(activeSessions, other) # s

(***************************************************************************)
(* StorageService: duplicates and the chat summary                         *)
(***************************************************************************)
\* The stored records that the rule of the specification takes for the same
\* message: the same id, or the same clientId (localId) with equal content
\* and timestamps within the window.
SameMessage(m, message) ==
    \/ m.id = message.id
    \/ /\ m.localId # NoLocal
       /\ m.localId = message.localId
       /\ m.content = message.content
       /\ Abs(m.timestamp - message.timestamp) < DupWindow

\* C21: an addChatMessage whose message is the same message as no stored
\* record (different id, different clientId) adds one record.
C21_DistinctMessagesKept ==
    [][lastOp'.kind = "add" =>
          LET message == lastOp'.msgs[1]
              before == getChatMessages(stored)
          IN (\A i \in DOMAIN before : ~SameMessage(before[i], message))
                => Len(stored') = Len(before) + 1]_vars

\* C24: once messages are stored, the chat summary's lastMessage and
\* lastMessageTime are those of a stored message with the greatest timestamp.
C24_SummaryIsLatestMessage ==
    stored # <<>> =>
       \E i \in DOMAIN stored :
          /\ \A j \in DOMAIN stored : stored[j].timestamp <= stored[i].timestamp
          /\ chatMeta.lastMessageTime = stored[i].timestamp
          /\ chatMeta.lastMessage = stored[i].content

(***************************************************************************)
(* Session-registry server: delivery and read acknowledgements             *)
(***************************************************************************)
\* C26: the recorded status of a message never goes back from read: a step
\* that starts with status read ends with status read.
C26_ReadStaysRead ==
    [][\A m \in MsgIds : messageStatus[m] = "read" => messageStatus'[m] = "read"]_vars

(***************************************************************************)
(* useChat: overlapping saves                                              *)
(***************************************************************************)
\* The message is in alice's local store: a record with its id, or for her
\* own message with its localId.
InLocalStore(message) ==
    \E i \in DOMAIN chatLocal["alice"] :
       IF message.localId # NoLocal
       THEN chatLocal["alice"][i].localId = message.localId
       ELSE chatLocal["alice"][i].id = message.id

\* C27: whenever no saveLocalMessage call is between its read and its
\* write, the local store holds every message whose save has completed.
C27_OverlappingSavesKeepBoth ==
    (\A caller \in Callers : saveCalls[caller].pc = "idle") =>
       \A caller \in Callers : \A n \in 1..saveCalls[caller].saved :
          InLocalStore(MessagesOf(caller)[n])

(***************************************************************************)
(* WebSocketService: sockets discarded by disconnect()                     *)
(***************************************************************************)
\* The close event of a socket that is no longer the service's socket,
\* while the service has a newer one.
DiscardedSocketCloses ==
    \E s \in WsIds :
       /\ ws # NoWs /\ s # ws
       /\ readyState[s] = "CLOSING"
       /\ readyState'[s] = "CLOSED"

\* C30: isConnected holds only while the service's current socket is open,
\* at most one socket is open, and the close event of a discarded socket
\* leaves isConnected, isConnecting, the heartbeat and the reconnect state
\* as they are.
C30_DiscardedSocketIsInert ==
    [][/\ isConnected' => IsOpen(Svc)'
       /\ Cardinality({s \in WsIds : readyState'[s] = "OPEN"}) <= 1
       /\ DiscardedSocketCloses =>
             UNCHANGED <<isConnected, isConnecting, heartbeatInterval,
                         heartbeatTimeout, reconnectAttempts, reconnectTimers>>]_vars

(***************************************************************************)
(* Session-registry server: heartbeat and the activity timestamp           *)
(***************************************************************************)
\* The server answers a ping of socket s, which is recorded for a session.
PingOfSession(s, userId) ==
    /\ emitted[s] # "pong"
    /\ emitted'[s] = "pong"
    /\ socketToUser[s] = userId
    /\ MapHas(activeSessions, userId)

\* C25: a heartbeat ping of a session's socket refreshes the session's
\* activity timestamp: after the ping is answered lastActivity is the
\* current time.
C25_PingRefreshesActivity ==
    [][\A s \in SockIds, userId \in Users :
          PingOfSession(s, userId) =>
             /\ MapHas(activeSessions', userId)
             /\ MapGet(activeSessions', userId).lastActivity = now]_vars

(***************************************************************************)
(* Connection-registry server: replaced sockets and presence               *)
(***************************************************************************)
\* C28: when the 'disconnect' handler of a socket runs to its end while the
\* connection recorded for the account names another, newer socket, that
\* record stays in activeConnections and its contactId stays in
\* contactToUser.
C28_ReplacedSocketLeavesNewer ==
    [][\A d \in connDisc :
          d \notin connDisc' =>
             LET connection == activeConnections[d.userId] IN
             (connection # NoConn /\ connection.socketId # d.socket) =>
                /\ activeConnections'[d.userId] = connection
                /\ contactToUser'[connection.contactId] =
                      contactToUser[connection.contactId]]_vars

\* C23: while a connected socket is authenticated for an account, the latest
\* presence broadcast for the account is user_online: no user_offline
\* follows it.
C23_NoOfflineWhileConnected ==
    \A s \in connSockets :
       authenticatedAs[s] # NoUser =>
          presence[authenticatedAs[s]] = "user_online"
====
